---------------------------- MODULE Spec2Model ----------------------------
(***************************************************************************)
(* Model of scripts/update_fallback_data.py: the fetch-or-generate-then-   *)
(* save pipeline for Finnish hourly electricity prices.                    *)
(*                                                                         *)
(* Units.  Prices are integers in cents (the stored value has 2 decimals), *)
(* a price before rounding is an integer in mills (1/10 cent).  A datetime *)
(* is the record of its fields [day, hour, minute, utcoffset]; seconds and *)
(* microseconds are not represented, so one minute is the clock's          *)
(* resolution.  utcoffset is in minutes; a pytz-aware datetime keeps the   *)
(* offset it was created with through replace() and timedelta arithmetic.  *)
(***************************************************************************)
EXTENDS Integers, Sequences, FiniteSets, TLC

VARIABLES
    pc,           \* position of the running process
    run,          \* number of processes started so far
    response,     \* outcome of requests.get in fetch_entsoe_data
    entsoe_data,  \* main's local entsoe_data
    now,          \* the clock reading taken by generate_fallback_data
    noise,        \* the draws random.uniform gives to generate_fallback_data
    data,         \* main's local data
    fs,           \* the filesystem: data/ and data/electricity-prices.json
    saved_over,   \* the filesystem as it was when save_data was entered
    stdout,       \* lines printed by the running process
    calls,        \* the calls main has made, in order
    raised        \* the exception that ended the process, if any

vars == <<pc, run, response, entsoe_data, now, noise, data, fs, saved_over,
          stdout, calls, raised>>

----------------------------------------------------------------------------
(* Bounds of the model *)

\* period of the sampled random streams used when checking the generator
NoisePeriod == 5

\* number of times the script is started
MaxRuns == 2

----------------------------------------------------------------------------
(* Python values *)

\* None, told apart from every dict and every exception by its type
None == [type |-> "NoneType"]

MinutesPerHour == 60

HoursPerDay == 24

\* the test of main reversed: "if entsoe_data is None"
TruthyInverted(x) == x = None

\* truthiness of main's entsoe_data: None is falsy, a dataset (a non-empty
\* dict) is truthy
Truthy(x) == x # None

\* a range that includes its stop
RangeInclusive(a, b) == a..b

\* range(a, b)
Range(a, b) == a..(b - 1)

Abs(x) == IF x < 0 THEN -x ELSE x

----------------------------------------------------------------------------
(* datetime *)

\* minutes of the datetime's own wall clock since day 0, 00:00
WallMinutes(dt) == (dt.day * HoursPerDay + dt.hour) * MinutesPerHour + dt.minute

FromWallMinutes(m, off) ==
    [day |-> m \div (HoursPerDay * MinutesPerHour),
     hour |-> (m \div MinutesPerHour) % HoursPerDay,
     minute |-> m % MinutesPerHour,
     utcoffset |-> off]

\* now.replace(minute=0, second=0, microsecond=0)
ReplaceMinuteZero(dt) == [dt EXCEPT !.minute = 0]

\* dt + timedelta(hours=i): field arithmetic, tzinfo kept as it is
PlusHours(dt, i) == FromWallMinutes(WallMinutes(dt) + i * MinutesPerHour, dt.utcoffset)

\* dt.isoformat(): the text "<date>T<HH>:<MM>...<+HH:MM>", as its fields
IsoFormat(dt) == <<dt.day, dt.hour, dt.minute, dt.utcoffset>>

\* datetime.fromisoformat(s)
FromIsoFormat(s) == [day |-> s[1], hour |-> s[2], minute |-> s[3], utcoffset |-> s[4]]

\* a - b for two aware datetimes, in minutes: both are taken to UTC
MinusAware(a, b) == (WallMinutes(a) - a.utcoffset) - (WallMinutes(b) - b.utcoffset)

----------------------------------------------------------------------------
(* generate_fallback_data *)

RangeStart == -24

RangeStop == 24

\* the half-width of random.uniform(-1.5, 1.5), in mills
NoiseMills == 1500

\* the buckets with their upper ends included
BasePriceInclusiveBounds(hour_of_day) ==
    IF 0 <= hour_of_day /\ hour_of_day <= 6 THEN 6000
    ELSE IF 6 <= hour_of_day /\ hour_of_day <= 9 THEN 8000
    ELSE IF 9 <= hour_of_day /\ hour_of_day <= 17 THEN 12000
    ELSE IF 17 <= hour_of_day /\ hour_of_day <= 22 THEN 10000
    ELSE 7000

\* base price by hour of day, in mills
BasePrice(hour_of_day) ==
    IF 0 <= hour_of_day /\ hour_of_day < 6 THEN 6000
    ELSE IF 6 <= hour_of_day /\ hour_of_day < 9 THEN 8000
    ELSE IF 9 <= hour_of_day /\ hour_of_day < 17 THEN 12000
    ELSE IF 17 <= hour_of_day /\ hour_of_day < 22 THEN 10000
    ELSE 7000

\* round(price, 2): mills to the nearest cent.  A float is never exactly
\* half way between two cents, so the sampled draws avoid a last digit 5.
Round2(mills) == (mills + 5) \div 10

\* the item the loop appends at offset i, given the draw u of random.uniform
HourlyItem(current_hour, i, u) ==
    LET hour == PlusHours(current_hour, i)
        price == BasePrice(hour.hour) + u
    IN  [time |-> IsoFormat(hour), price |-> Round2(price)]

\* len(range(-24, 24))
NumPoints == Cardinality(Range(RangeStart, RangeStop))

\* the loop over range(-24, 24); the k-th iteration takes the k-th draw
HourlyData(current_hour, draws) ==
    [k \in 1..NumPoints |-> HourlyItem(current_hour, RangeStart + k - 1, draws[k])]

\* sum(prices), over the first k of them
RECURSIVE SumFirst(_, _)
SumFirst(xs, k) == IF k = 0 THEN 0 ELSE xs[k] + SumFirst(xs, k - 1)

\* the values of a list
Values(xs) == {xs[k] : k \in DOMAIN xs}

\* the first price taken for the smallest
MinOfFirst(prices) == prices[1]

\* min(prices)
MinOf(prices) == CHOOSE p \in Values(prices) : \A q \in Values(prices) : p <= q

\* max(prices)
MaxOf(prices) == CHOOSE p \in Values(prices) : \A q \in Values(prices) : p >= q

\* the last item with the price instead of the first
LastWithPrice(hourly_data, value) ==
    hourly_data[CHOOSE k \in DOMAIN hourly_data :
                    /\ hourly_data[k].price = value
                    /\ \A j \in (k + 1)..Len(hourly_data) : hourly_data[j].price # value]

\* next(item for item in hourly_data if item['price'] == value): the
\* generator stops at the first item that passes the test
FirstWithPrice(hourly_data, value) ==
    hourly_data[CHOOSE k \in DOMAIN hourly_data :
                    /\ hourly_data[k].price = value
                    /\ \A j \in 1..(k - 1) : hourly_data[j].price # value]

\* the key of the min() at line 118
Distance(item, t) == Abs(MinusAware(FromIsoFormat(item.time), t))

\* the keys min() computes, one for each item
Keys(hourly_data, t) == [k \in DOMAIN hourly_data |-> Distance(hourly_data[k], t)]

\* a scan that lets a later item with an equal key replace the earlier one
ClosestItemLastOnTie(hourly_data, t) ==
    CHOOSE item \in
        { hourly_data[CHOOSE k \in DOMAIN hourly_data :
                /\ Distance(hourly_data[k], t) = smallest
                /\ \A j \in (k + 1)..Len(hourly_data) :
                      Distance(hourly_data[j], t) # smallest]
          : smallest \in {MinOf(Keys(hourly_data, t))} } : TRUE

\* min(hourly_data, key=...): min() keeps the first item among those with
\* the smallest key
ClosestItem(hourly_data, t) ==
    CHOOSE item \in
        { hourly_data[CHOOSE k \in DOMAIN hourly_data :
                /\ Distance(hourly_data[k], t) = smallest
                /\ \A j \in 1..(k - 1) : Distance(hourly_data[j], t) # smallest]
          : smallest \in {MinOf(Keys(hourly_data, t))} } : TRUE

\* round(sum(prices) / len(prices), 2), in cents, to the nearest cent
AveragePrice(prices) ==
    (2 * SumFirst(prices, Len(prices)) + Len(prices)) \div (2 * Len(prices))

\* lines 107-134: the statistics and the returned dict, given the list the
\* loop has built.  min_price and max_price are each computed once (lines
\* 110, 111) and then used.
Summary(t, hourly_data, prices) ==
    CHOOSE summary \in
        { [last_updated |-> IsoFormat(t),
           current_price |-> ClosestItem(hourly_data, t).price,
           average_price |-> AveragePrice(prices),
           min_price |-> [value |-> min_price,
                          time |-> FirstWithPrice(hourly_data, min_price).time],
           max_price |-> [value |-> max_price,
                          time |-> FirstWithPrice(hourly_data, max_price).time],
           hourly_data |-> hourly_data]
          : min_price \in {MinOf(prices)}, max_price \in {MaxOf(prices)} } : TRUE

\* prices = [item['price'] for item in hourly_data]
Prices(hourly_data) == <<>> \o [k \in DOMAIN hourly_data |-> hourly_data[k].price]

\* generate_fallback_data(), given the clock reading and the random draws:
\* the loop builds the list once (lines 78-105), the rest reads it
generate_fallback_data(t, draws) ==
    CHOOSE summary \in
        { Summary(t, hourly_data, Prices(hourly_data))
          : hourly_data \in {<<>> \o HourlyData(ReplaceMinuteZero(t), draws)} } : TRUE

----------------------------------------------------------------------------
(* Inputs of the generator: clock readings and random streams *)

\* Europe/Helsinki is UTC+2 (EET) or UTC+3 (EEST)
HelsinkiOffsets == {120, 180}

\* minutes past the hour: on the hour, half way, and past half way
SampleMinutes == {0, 30, 31}

\* datetime.now(helsinki_tz)
ClockReadings(hours, minutes) ==
    [day : {1}, hour : hours, minute : minutes, utcoffset : HelsinkiOffsets]

\* draws of random.uniform(-1.5, 1.5), in mills: the two ends, and one that
\* rounds to the same cent as the lower end
SampleDraws == {-NoiseMills, 4 - NoiseMills, NoiseMills}

\* the streams of draws that repeat with the given period
NoiseStreams(period) ==
    { [k \in 1..NumPoints
          |-> pat[((k - 1) % period) + 1]] : pat \in [1..period -> SampleDraws] }

----------------------------------------------------------------------------
(* fetch_entsoe_data *)

\* what requests.get raises when the request fails
RequestExceptions == {"ConnectionError", "Timeout"}

\* response.status_code
StatusCodes == {200, 404, 500}

\* the outcomes of requests.get(api_url, params=params)
GetOutcomes ==
    [kind : {"raise"}, exc : RequestExceptions]
        \cup [kind : {"response"}, status_code : StatusCodes]

\* a handler narrowed to "except requests.Timeout"
CaughtOnlyTimeout(exc) == exc = "Timeout"

\* the classes "except Exception" catches: every requests exception derives
\* from IOError, and so from Exception
CaughtByExceptException(exc) == exc \in RequestExceptions \cup {"Exception"}

\* the GET made outside the try block: what it raises leaves the fetcher
FetchResultUncaught(r) ==
    IF r.kind = "raise"
    THEN [ret |-> None, escapes |-> [type |-> r.exc], out |-> <<>>]
    ELSE [ret |-> None, escapes |-> None,
          out |-> <<[text |-> "Error fetching data from ENTSO-E API"],
                    [text |-> "Response"]>>]

\* what fetch_entsoe_data does with the outcome of the GET: the value it
\* returns, the lines it prints, the exception it lets out
FetchResult(r) ==
    IF r.kind = "raise"
    THEN IF CaughtByExceptException(r.exc)
         THEN [ret |-> None, escapes |-> None,
               out |-> <<[text |-> "Exception when fetching ENTSO-E data"]>>]
         ELSE [ret |-> None, escapes |-> [type |-> r.exc], out |-> <<>>]
    ELSE IF r.status_code = 200
         THEN [ret |-> None, escapes |-> None,
               out |-> <<[text |-> "Successfully fetched data from ENTSO-E API, but XML parsing not implemented"]>>]
         ELSE [ret |-> None, escapes |-> None,
               out |-> <<[text |-> "Error fetching data from ENTSO-E API"],
                         [text |-> "Response"]>>]

----------------------------------------------------------------------------
(* save_data *)

Perms == {"writable", "mkdir_denied", "write_denied"}

PermissionError == [type |-> "PermissionError"]

\* a file just opened with mode 'w': created or truncated
EmptyFile == [format |-> "empty"]

JsonIndent == 2

\* json.dump(data, f, indent=2): the text of the file
JsonDump(d) == [format |-> "json", indent |-> JsonIndent, value |-> d]

\* os.makedirs('data') without exist_ok
MakedirsNoExistOk(f) ==
    IF f.dir THEN [error |-> [type |-> "FileExistsError"], fs |-> f]
    ELSE IF f.perm = "mkdir_denied" THEN [error |-> PermissionError, fs |-> f]
    ELSE [error |-> None, fs |-> [f EXCEPT !.dir = TRUE]]

\* os.makedirs('data', exist_ok=True)
Makedirs(f) ==
    IF f.dir THEN [error |-> None, fs |-> f]
    ELSE IF f.perm = "mkdir_denied" THEN [error |-> PermissionError, fs |-> f]
    ELSE [error |-> None, fs |-> [f EXCEPT !.dir = TRUE]]

\* open('data/electricity-prices.json', 'w')
OpenW(f) ==
    IF f.perm = "write_denied" THEN [error |-> PermissionError, fs |-> f]
    ELSE [error |-> None, fs |-> [f EXCEPT !.file = EmptyFile]]

\* the three lines save_data prints after the file is closed
SaveLines(d) ==
    <<[text |-> "Data saved to data/electricity-prices.json"],
      [text |-> "Current price", value |-> d.current_price],
      [text |-> "Last updated", value |-> d.last_updated]>>

----------------------------------------------------------------------------
(* main, one step at a time *)

\* save_data wrapped in a try block that swallows the error
OnSaveErrorSwallowed == "main_completed"

\* where main goes when save_data raises: nothing catches it
OnSaveError == "crashed"

\* the clock readings and random streams a run of the script may see
RunClock == ClockReadings({2, 14}, {31})

\* every draw of a run the same: the streams of period 1
RunNoise == NoiseStreams(1)

Init ==
    /\ pc = "main"
    /\ run = 1
    /\ response = None
    /\ entsoe_data = None
    /\ now = None
    /\ noise = None
    /\ data = None
    /\ fs \in [dir : {FALSE}, file : {None}, perm : Perms]
    /\ saved_over = None
    /\ stdout = <<>>
    /\ calls = <<>>
    /\ raised = None

MainStart ==
    /\ pc = "main"
    /\ stdout' = Append(stdout, [text |-> "Fetching electricity prices for Finland..."])
    /\ calls' = Append(calls, [op |-> "fetch_entsoe_data"])
    /\ pc' = "fetch_get"
    /\ UNCHANGED <<run, response, entsoe_data, now, noise, data, fs, saved_over, raised>>

FetchGet ==
    /\ pc = "fetch_get"
    /\ response' \in GetOutcomes
    /\ pc' = "fetch_handle"
    /\ UNCHANGED <<run, entsoe_data, now, noise, data, fs, saved_over, stdout,
                   calls, raised>>

FetchHandle ==
    /\ pc = "fetch_handle"
    /\ LET r == FetchResult(response)
       IN  IF r.escapes # None
           THEN /\ pc' = "crashed"
                /\ raised' = r.escapes
                /\ UNCHANGED <<entsoe_data, stdout>>
           ELSE /\ pc' = "main_branch"
                /\ entsoe_data' = r.ret
                /\ stdout' = stdout \o r.out
                /\ UNCHANGED raised
    /\ UNCHANGED <<run, response, now, noise, data, fs, saved_over, calls>>

MainBranch ==
    /\ pc = "main_branch"
    /\ IF Truthy(entsoe_data)
       THEN /\ data' = entsoe_data
            /\ stdout' = Append(stdout,
                 [text |-> "Successfully fetched and processed real-time data from ENTSO-E"])
            /\ pc' = "save_call"
            /\ UNCHANGED calls
       ELSE /\ calls' = Append(calls, [op |-> "generate_fallback_data"])
            /\ pc' = "generate"
            /\ UNCHANGED <<data, stdout>>
    /\ UNCHANGED <<run, response, entsoe_data, now, noise, fs, saved_over, raised>>

Generate ==
    /\ pc = "generate"
    /\ now' \in RunClock
    /\ noise' \in RunNoise
    /\ data' = generate_fallback_data(now', noise')
    /\ stdout' = Append(stdout, [text |-> "Using generated fallback data"])
    /\ pc' = "save_call"
    /\ UNCHANGED <<run, response, entsoe_data, fs, saved_over, calls, raised>>

SaveCall ==
    /\ pc = "save_call"
    /\ calls' = Append(calls, [op |-> "save_data", arg |-> data])
    /\ saved_over' = fs
    /\ pc' = "save_makedirs"
    /\ UNCHANGED <<run, response, entsoe_data, now, noise, data, fs, stdout, raised>>

SaveMakedirs ==
    /\ pc = "save_makedirs"
    /\ LET r == Makedirs(fs)
       IN  IF r.error # None
           THEN /\ pc' = OnSaveError
                /\ raised' = r.error
                /\ UNCHANGED fs
           ELSE /\ pc' = "save_open"
                /\ fs' = r.fs
                /\ UNCHANGED raised
    /\ UNCHANGED <<run, response, entsoe_data, now, noise, data, saved_over,
                   stdout, calls>>

SaveOpen ==
    /\ pc = "save_open"
    /\ LET r == OpenW(fs)
       IN  IF r.error # None
           THEN /\ pc' = OnSaveError
                /\ raised' = r.error
                /\ UNCHANGED fs
           ELSE /\ pc' = "save_dump"
                /\ fs' = r.fs
                /\ UNCHANGED raised
    /\ UNCHANGED <<run, response, entsoe_data, now, noise, data, saved_over,
                   stdout, calls>>

SaveDump ==
    /\ pc = "save_dump"
    /\ fs' = [fs EXCEPT !.file = JsonDump(data)]
    /\ pc' = "save_print"
    /\ UNCHANGED <<run, response, entsoe_data, now, noise, data, saved_over,
                   stdout, calls, raised>>

SavePrint ==
    /\ pc = "save_print"
    /\ IF data = None
       THEN /\ stdout' = Append(stdout, [text |-> "Data saved to data/electricity-prices.json"])
            /\ raised' = [type |-> "TypeError"]
            /\ pc' = OnSaveError
       ELSE /\ stdout' = stdout \o SaveLines(data)
            /\ pc' = "main_completed"
            /\ UNCHANGED raised
    /\ UNCHANGED <<run, response, entsoe_data, now, noise, data, fs, saved_over, calls>>

MainCompleted ==
    /\ pc = "main_completed"
    /\ stdout' = Append(stdout, [text |-> "Data update completed successfully!"])
    /\ pc' = "done"
    /\ UNCHANGED <<run, response, entsoe_data, now, noise, data, fs, saved_over,
                   calls, raised>>

\* the script is started again: a new process, the same working directory
Restart ==
    /\ pc \in {"done", "crashed"}
    /\ run < MaxRuns
    /\ run' = run + 1
    /\ pc' = "main"
    /\ response' = None
    /\ entsoe_data' = None
    /\ now' = None
    /\ noise' = None
    /\ data' = None
    /\ \E p \in Perms : fs' = [fs EXCEPT !.perm = p]
    /\ saved_over' = None
    /\ stdout' = <<>>
    /\ calls' = <<>>
    /\ raised' = None

\* the steps of one process
Step ==
    \/ MainStart
    \/ FetchGet
    \/ FetchHandle
    \/ MainBranch
    \/ Generate
    \/ SaveCall
    \/ SaveMakedirs
    \/ SaveOpen
    \/ SaveDump
    \/ SavePrint
    \/ MainCompleted

Next == Step \/ Restart

Spec == Init /\ [][Next]_vars

\* a started process keeps running until it ends
FairSpec == Spec /\ WF_vars(Step)

----------------------------------------------------------------------------
(* The generator alone: the inputs are drawn, then the function is applied *)

\* the hours of the day the clock is read at
SampleHours == {0, 3, 6, 9, 14, 17, 22, 23}

GenInit ==
    /\ pc = "generate"
    /\ run = 1
    /\ response = None
    /\ entsoe_data = None
    /\ now \in ClockReadings(SampleHours, SampleMinutes)
    /\ noise \in NoiseStreams(NoisePeriod)
    /\ data = None
    /\ fs = [dir |-> FALSE, file |-> None, perm |-> "writable"]
    /\ saved_over = None
    /\ stdout = <<>>
    /\ calls = <<>>
    /\ raised = None

GenCall ==
    /\ pc = "generate"
    /\ data' = generate_fallback_data(now, noise)
    /\ pc' = "generated"
    /\ UNCHANGED <<run, response, entsoe_data, now, noise, fs, saved_over,
                   stdout, calls, raised>>

GenNext == GenCall

GenSpec == GenInit /\ [][GenNext]_vars

----------------------------------------------------------------------------
(* Vocabulary of the properties, stated on what the program leaves behind: *)
(* the returned dict, the file, the printed lines, the calls.              *)

\* the instant an ISO-8601 text names, in minutes UTC
IsoInstant(s) == (s[1] * 24 + s[2]) * 60 + s[3] - s[4]

\* the ops of the calls main has made
Ops == [k \in DOMAIN calls |-> calls[k].op]

Printed(text) == \E k \in DOMAIN stdout : stdout[k].text = text

\* the fetcher has returned to main, or has let an exception out
FetchOver == pc \notin {"main", "fetch_get", "fetch_handle"}

\* the run is over, normally or not
RunOver == pc \in {"done", "crashed"}

\* the generator has returned its dict
Generated == pc = "generated"

\* the base price in cents for an hour of the day, as the buckets are documented
DocumentedBase(h) ==
    CASE h \in 0..5 -> 600
      [] h \in 6..8 -> 800
      [] h \in 9..16 -> 1200
      [] h \in 17..21 -> 1000
      [] h \in 22..23 -> 700

\* the distance, in minutes, from the k-th point to the generation time
DistanceToNow(d, k) ==
    LET x == IsoInstant(d.hourly_data[k].time) - IsoInstant(d.last_updated)
    IN  IF x < 0 THEN -x ELSE x

\* the chronologically first point among those nearest to the generation time
NearestPoint(d) ==
    CHOOSE k \in DOMAIN d.hourly_data :
        /\ \A j \in DOMAIN d.hourly_data : DistanceToNow(d, k) <= DistanceToNow(d, j)
        /\ \A j \in 1..(k - 1) : DistanceToNow(d, j) # DistanceToNow(d, k)

\* the points carrying a price
PointsAt(d, value) == {k \in DOMAIN d.hourly_data : d.hourly_data[k].price = value}

----------------------------------------------------------------------------
(* Properties of the pipeline, checked under Spec and FairSpec *)

\* C1: fetch_entsoe_data never lets an exception escape: whatever the GET
\* does (raises, answers with a status other than 200, answers 200), the
\* fetcher returns None to main and no exception of the GET ends the run.
C1_FetchNeverRaises ==
    FetchOver =>
        /\ entsoe_data = None
        /\ raised.type \notin RequestExceptions
        /\ pc = "main_branch" => raised = None

C1_Witness ==
    /\ pc = "main_branch"
    /\ response.kind = "raise"
    /\ entsoe_data = None
    /\ Printed("Exception when fetching ENTSO-E data")

\* C2: in every run main calls the fetcher once and first, the generator
\* if and only if the fetcher's result is empty, and the writer once and
\* last, with the fetcher's dataset when it is not empty and with the
\* generator's dataset otherwise.
C2_CallOrder ==
    /\ Ops \in {<<>>,
                <<"fetch_entsoe_data">>,
                <<"fetch_entsoe_data", "generate_fallback_data">>,
                <<"fetch_entsoe_data", "generate_fallback_data", "save_data">>,
                <<"fetch_entsoe_data", "save_data">>}
    /\ Len(Ops) >= 2 =>
          (Ops[2] = "generate_fallback_data" <=> entsoe_data = None)
    /\ Ops = <<"fetch_entsoe_data", "save_data">> =>
          calls[2].arg = entsoe_data
    /\ Ops = <<"fetch_entsoe_data", "generate_fallback_data", "save_data">> =>
          calls[3].arg = generate_fallback_data(now, noise)
    /\ RunOver => Ops[Len(Ops)] = "save_data"

C2_Witness ==
    /\ pc = "done"
    /\ Ops = <<"fetch_entsoe_data", "generate_fallback_data", "save_data">>
    /\ calls[3].arg = data
    /\ data # None

\* C3: whatever the remote end does, a run on a writable filesystem
\* eventually completes with data/electricity-prices.json holding the
\* generated fallback data, and no error reaches the caller of main.
C3_FallbackWritten ==
    (pc = "fetch_handle" /\ response \in GetOutcomes /\ fs.perm = "writable")
            ~> (/\ pc = "done"
                /\ raised = None
                /\ Printed("Using generated fallback data")
                /\ fs.dir
                /\ fs.file.format = "json"
                /\ fs.file.value = generate_fallback_data(now, noise))

C3_Witness ==
    /\ pc = "done"
    /\ response = [kind |-> "response", status_code |-> 500]
    /\ raised = None
    /\ fs.file.format = "json"
    /\ fs.file.value = data
    /\ Len(data.hourly_data) = 48

\* C7: a filesystem failure in save_data (the directory cannot be created,
\* or the file cannot be opened for writing) is not caught: the step that
\* fails ends the run with the error, a run that ended so only gives way to
\* a new process, and neither "Data saved ..." nor "Data update completed
\* successfully!" is printed in that run.
C7_FilesystemFailureFatal ==
    [][ /\ (\/ pc = "save_makedirs" /\ ~fs.dir /\ fs.perm = "mkdir_denied"
            \/ pc = "save_open" /\ fs.perm = "write_denied")
           => /\ pc' = "crashed"
              /\ raised' = [type |-> "PermissionError"]
        /\ pc = "crashed" => (pc' = "crashed" \/ run' = run + 1)
        /\ pc' = "crashed" =>
              /\ \A k \in DOMAIN stdout' :
                    stdout'[k].text \notin
                        {"Data saved to data/electricity-prices.json",
                         "Data update completed successfully!"}
      ]_vars

C7_Witness ==
    /\ pc = "crashed"
    /\ raised = [type |-> "PermissionError"]
    /\ fs.perm = "write_denied"
    /\ fs.dir
    /\ Ops[Len(Ops)] = "save_data"

\* C8: on a writable filesystem no save_data call fails, whether or not
\* the directory and the file already exist; once the call has written,
\* the directory exists and the file holds exactly the dataset passed to
\* that call, nothing of what it held before.
C8_SaveOverwrites ==
    /\ (pc = "crashed" /\ saved_over # None) => saved_over.perm # "writable"
    /\ pc \in {"save_print", "main_completed", "done"} =>
          /\ fs.dir
          /\ fs.file = [format |-> "json", indent |-> 2,
                        value |-> calls[Len(calls)].arg]

C8_Witness ==
    /\ pc = "done"
    /\ run = 2
    /\ saved_over.dir
    /\ saved_over.file # None
    /\ saved_over.file.format = "json"
    /\ saved_over.file.value # data
    /\ fs.file.value = data

----------------------------------------------------------------------------
(* Properties of generate_fallback_data, checked under GenSpec *)

\* C4: the dataset has exactly 48 points; the k-th timestamp is the top of
\* the hour of the generation time plus k - 25 hours (-24 .. +23), so the
\* timestamps increase by exactly one hour from each point to the next.
C4_FortyEightHourly ==
    Generated =>
        LET hd == data.hourly_data
            top == IsoInstant(data.last_updated) - data.last_updated[3]
        IN  /\ DOMAIN hd = 1..48
            /\ \A k \in DOMAIN hd :
                  /\ IsoInstant(hd[k].time) = top + (k - 25) * 60
                  /\ hd[k].time[3] = 0
                  /\ hd[k].time[2] \in 0..23
            /\ \A k \in 1..47 :
                  IsoInstant(hd[k + 1].time) - IsoInstant(hd[k].time) = 60

C4_Witness ==
    /\ Generated
    /\ Len(data.hourly_data) = 48
    /\ data.last_updated[3] = 31
    /\ data.hourly_data[1].time[1] < data.hourly_data[25].time[1]
    /\ data.hourly_data[25].time[1] < data.hourly_data[48].time[1]

\* C5: min_price.value <= p.price <= max_price.value for every point p,
\* and each of the two values is the price of some point.
C5_MinMaxBracket ==
    Generated =>
        /\ \A k \in DOMAIN data.hourly_data :
              /\ data.min_price.value <= data.hourly_data[k].price
              /\ data.hourly_data[k].price <= data.max_price.value
        /\ PointsAt(data, data.min_price.value) # {}
        /\ PointsAt(data, data.max_price.value) # {}

C5_Witness ==
    /\ Generated
    /\ data.min_price.value < data.hourly_data[1].price
    /\ data.hourly_data[1].price < data.max_price.value

\* C6: current_price is the price of the point nearest to the generation
\* time (last_updated, not truncated); of two points equally near, the
\* chronologically first counts.
C6_CurrentIsNearest ==
    Generated => data.current_price = data.hourly_data[NearestPoint(data)].price

C6_Witness ==
    /\ Generated
    /\ DistanceToNow(data, 25) = 30
    /\ DistanceToNow(data, 26) = 30
    /\ data.hourly_data[25].price # data.hourly_data[26].price
    /\ data.current_price = data.hourly_data[25].price

\* C9: the price of every point lies within 1.50 of the base price of the
\* hour of day of its timestamp (0-5: 6.00, 6-8: 8.00, 9-16: 12.00,
\* 17-21: 10.00, 22-23: 7.00), hence in [4.50, 13.50].
C9_BaseByHour ==
    Generated =>
        \A k \in DOMAIN data.hourly_data :
            LET p == data.hourly_data[k]
                d == p.price - DocumentedBase(p.time[2])
            IN  /\ -150 <= d /\ d <= 150
                /\ 450 <= p.price /\ p.price <= 1350

C9_Witness ==
    /\ Generated
    /\ \E k \in DOMAIN data.hourly_data :
          data.hourly_data[k].time[2] = 14 /\ data.hourly_data[k].price = 1350
    /\ \E k \in DOMAIN data.hourly_data :
          data.hourly_data[k].time[2] = 2 /\ data.hourly_data[k].price = 450

\* C10: when several points share the minimum price, min_price.time is the
\* timestamp of the chronologically first of them; likewise max_price.time
\* for the maximum price.
C10_FirstOfTies ==
    Generated =>
        \A k \in DOMAIN data.hourly_data :
            LET earlier == {data.hourly_data[j].price : j \in 1..(k - 1)}
                p == data.hourly_data[k]
            IN  /\ (p.price = data.min_price.value /\ p.price \notin earlier)
                      => data.min_price.time = p.time
                /\ (p.price = data.max_price.value /\ p.price \notin earlier)
                      => data.max_price.time = p.time

C10_Witness ==
    /\ Generated
    /\ Cardinality(PointsAt(data, data.min_price.value)) >= 2
    /\ Cardinality(PointsAt(data, data.max_price.value)) >= 2
    /\ data.min_price.time # data.max_price.time

=============================================================================
